---- MODULE Spec2Model ----
(***************************************************************************)
(* Model of eth-rewards-api: the two gin handlers GetBlockReward and       *)
(* GetSyncDuties (internal/handlers/blockreward.go) and the consensus and  *)
(* execution service calls they make (internal/services).                  *)
(*                                                                         *)
(* Strings are TLA+ strings, read character by character with SubSeq, so   *)
(* that the parsers (strconv.ParseUint, big.Int.SetString) and formatters  *)
(* (Sprintf "0x%x", big.Int.String) are modelled by what they do.          *)
(* Integers are TLC integers: the inputs are chosen so that every sum the  *)
(* handler forms stays inside that range (big.Int itself never overflows). *)
(***************************************************************************)
EXTENDS Integers, Sequences, FiniteSets, TLC

\* ------------------------------------------------------------------------
\* Program constants
\* ------------------------------------------------------------------------
SLOTS_PER_EPOCH == 32
GweiDivider == 1000000000
RelayExtraDataLen == 20
StatusOK == 200
StatusBadRequest == 400
StatusNotFound == 404
StatusInternalServerError == 500

\* ------------------------------------------------------------------------
\* Bounds of the model
\* ------------------------------------------------------------------------
MaxTxs == 2
MaxEpoch == 1

\* ------------------------------------------------------------------------
\* Characters and strings
\* ------------------------------------------------------------------------
CharAt(s, i) == SubSeq(s, i, i)

DropPrefix(s, n) == SubSeq(s, n + 1, Len(s))

DecDigits == "0123456789"
HexDigitsLower == "0123456789abcdef"
HexDigitsUpper == "0123456789ABCDEF"

IsDecDigit(c) == \E i \in 1..10 : CharAt(DecDigits, i) = c

DecDigitVal(c) == (CHOOSE i \in 1..10 : CharAt(DecDigits, i) = c) - 1

IsHexDigit(c) ==
    \E i \in 1..16 : CharAt(HexDigitsLower, i) = c \/ CharAt(HexDigitsUpper, i) = c

HexDigitVal(c) ==
    (CHOOSE i \in 1..16 : CharAt(HexDigitsLower, i) = c \/ CharAt(HexDigitsUpper, i) = c) - 1

RECURSIVE DigitsValue(_, _, _)
\* The value of the digit string s in the given base (most significant first).
DigitsValue(s, base, acc) ==
    IF s = "" THEN acc
    ELSE DigitsValue(DropPrefix(s, 1), base,
                     acc * base + (IF base = 10 THEN DecDigitVal(CharAt(s, 1))
                                   ELSE HexDigitVal(CharAt(s, 1))))

\* strconv.ParseUint(s, 10, 64): a non-empty run of decimal digits, no sign.
ParseUint(s) ==
    IF s # "" /\ \A i \in 1..Len(s) : IsDecDigit(CharAt(s, i))
    THEN [ok |-> TRUE, val |-> DigitsValue(s, 10, 0)]
    ELSE [ok |-> FALSE, val |-> 0]

\* big.Int.SetString(s, 16): an optional sign "+" or "-", then a non-empty
\* run of hexadecimal digits of either case; the whole string must match.
SetString16(s) ==
    LET signed == s # "" /\ CharAt(s, 1) \in {"+", "-"}
        digits == IF signed THEN DropPrefix(s, 1) ELSE s
        neg    == signed /\ CharAt(s, 1) = "-"
    IN  IF digits # "" /\ \A i \in 1..Len(digits) : IsHexDigit(CharAt(digits, i))
        THEN [ok |-> TRUE,
              val |-> IF neg THEN 0 - DigitsValue(digits, 16, 0)
                      ELSE DigitsValue(digits, 16, 0)]
        ELSE [ok |-> FALSE, val |-> 0]

\* hexToBigInt: "0x" followed by at least one more character, the rest
\* handed to SetString base 16.
hexToBigInt(hexStr) ==
    IF Len(hexStr) > 2 /\ SubSeq(hexStr, 1, 2) = "0x"
    THEN SetString16(DropPrefix(hexStr, 2))
    ELSE [ok |-> FALSE, val |-> 0]

RECURSIVE FmtDigits(_, _)
\* The digits of n >= 0 in the given base, "0" for zero.
FmtDigits(n, base) ==
    LET d == CharAt(HexDigitsLower, (n % base) + 1)
    IN  IF n < base THEN d ELSE FmtDigits(n \div base, base) \o d

\* The block number formatted in decimal behind the 0x prefix.
FmtHex_decimal(n) == "0x" \o FmtDigits(n, 10)

\* fmt.Sprintf("0x%x", n) for an unsigned n.
FmtHex(n) == "0x" \o FmtDigits(n, 16)

\* fmt.Sprintf("%d", n) for an unsigned n.
FmtDec(n) == FmtDigits(n, 10)

\* big.Int.String(): decimal, with a leading "-" for negative values.
BigString(n) == IF n < 0 THEN "-" \o FmtDigits(0 - n, 10) ELSE FmtDigits(n, 10)

\* big.Int.Div with a positive divisor: Euclidean division, the remainder
\* is never negative, so the quotient of a negative x rounds down.
BigDiv(x, y) == x \div y

\* big.Int.Quo: truncated division (rounds toward zero).
BigQuo(x, y) == IF x >= 0 THEN x \div y ELSE 0 - ((0 - x) \div y)

\* ------------------------------------------------------------------------
\* Inputs: inbound requests and upstream answers
\* ------------------------------------------------------------------------
SeqsUpTo(S, n) == UNION {[1..k -> S] : k \in 0..n}

\* The first, second and last slot of each epoch up to MaxEpoch.
Slots == {e * SLOTS_PER_EPOCH + o : e \in 0..MaxEpoch, o \in {0, 1, SLOTS_PER_EPOCH - 1}}

\* The head of the chain: the second slot of the last epoch.
HeadSlot == MaxEpoch * SLOTS_PER_EPOCH + 1

MalformedUints == {"", "abc", "-1", "0x21"}

SlotParams == {FmtDec(s) : s \in Slots} \cup MalformedUints

Endpoints == {"blockreward", "syncduties"}

\* An upstream HTTP exchange: a transport failure (connection error or the
\* client's 10 s timeout), or a response with a status code and a body that
\* the JSON decoder accepts or rejects.
TransportError(emptyBody) ==
    [kind |-> "transport_error", status |-> 0, decodable |-> FALSE, body |-> emptyBody]

HttpError(code, emptyBody) ==
    [kind |-> "http", status |-> code, decodable |-> TRUE, body |-> emptyBody]

Undecodable(emptyBody) ==
    [kind |-> "http", status |-> StatusOK, decodable |-> FALSE, body |-> emptyBody]

HttpOK(b) == [kind |-> "http", status |-> StatusOK, decodable |-> TRUE, body |-> b]

Failures(emptyBody) ==
    {TransportError(emptyBody), Undecodable(emptyBody),
     HttpError(StatusInternalServerError, emptyBody), HttpError(204, emptyBody)}

\* models.BeaconHeadersResponse: Data[i].Header.Message.Slot
HeadAnswers ==
    Failures(<<>>) \cup {HttpError(StatusNotFound, <<>>), HttpOK(<<>>)}
    \cup {HttpOK(<<s>>) : s \in {FmtDec(HeadSlot)} \cup MalformedUints}
    \cup {HttpOK(<<"abc", FmtDec(HeadSlot)>>)}

\* models.BeaconBlockResponse: Data.Message.Body.ExecutionPayload.BlockNumber
BlockNumbers == {"5", "255"}

BeaconAnswers ==
    Failures("") \cup {HttpError(StatusNotFound, "")}
    \cup {HttpOK(n) : n \in BlockNumbers \cup MalformedUints}

\* models.ExecutionBlockTx: the two fields the handler reads.
Tx(gasPrice, gas) == [GasPrice |-> gasPrice, Gas |-> gas]

BigGasPrice == "0x77359401"

TxPool ==
    {Tx("0x4", "0x2"), Tx(BigGasPrice, "0x1"), Tx("0x1", "0x5"), Tx("0x3", "0x-1"),
     Tx("", "0x1"), Tx("0xA", "0xg")}

BaseFees == {"0x2", "0x-1", "0x", "0xg", "0X2", ""}

\* A hex string "0x.." encoding n bytes of extra data.
RECURSIVE HexBytes(_)
HexBytes(n) == IF n = 0 THEN "" ELSE "ab" \o HexBytes(n - 1)

ExtraDataOf(n) == "0x" \o HexBytes(n)

ExtraByteLens == {0, 9, 10, 20, 21}

\* The byte length of the data a hex string "0x.." encodes.
DecodedLen(hexStr) == (Len(hexStr) - 2) \div 2

\* models.ExecutionBlockFullResponse.Result
Block(number, baseFee, extra, txs) ==
    [Number |-> number, BaseFeePerGas |-> baseFee, ExtraData |-> extra, Transactions |-> txs]

EmptyBlock == Block("", "", "", <<>>)

\* TLC integers are 32 bits wide: a block holds at most one transaction
\* of the big gas price, so that the total stays in range.
InRange(txs) == Cardinality({i \in DOMAIN txs : txs[i].GasPrice = BigGasPrice}) <= 1

ExecBlocks ==
    {Block("0xff", b, ExtraDataOf(n), txs) :
        b \in BaseFees, n \in ExtraByteLens,
        txs \in {t \in SeqsUpTo(TxPool, MaxTxs) : InRange(t)}}

ExecAnswers ==
    Failures(EmptyBlock) \cup {HttpError(StatusNotFound, EmptyBlock), HttpOK(EmptyBlock)}
    \cup {HttpOK(b) : b \in ExecBlocks}

\* The upstream's sync committee for a query: the upstream answers as a
\* function of the state_id and the epoch it is asked for, and different
\* queries get different committees.
CommitteeOf(state_id, epoch) == <<FmtDec(state_id), FmtDec(epoch)>>

\* models.SyncCommitteeResponse: Data.Validators
SyncAnswers(state_id, epoch) ==
    Failures(<<>>) \cup {HttpError(StatusNotFound, <<>>),
                         HttpOK(CommitteeOf(state_id, epoch))}

NoAnswer(emptyBody) ==
    [kind |-> "none", status |-> 0, decodable |-> FALSE, body |-> emptyBody]

\* ------------------------------------------------------------------------
\* Service calls: what each service method returns for an upstream answer.
\* err = "" is Go's nil error.
\* ------------------------------------------------------------------------
\* ConsensusService.GetHeadSlot
GetHeadSlot(ans) ==
    IF ans.kind = "transport_error" THEN [err |-> "transport error", val |-> 0]
    ELSE IF ans.status # StatusOK THEN [err |-> "unexpected status code", val |-> 0]
    ELSE IF ~ans.decodable THEN [err |-> "decode error", val |-> 0]
    ELSE IF Len(ans.body) = 0 THEN [err |-> "no header data returned", val |-> 0]
    ELSE IF ~ParseUint(ans.body[1]).ok THEN [err |-> "parse error", val |-> 0]
    ELSE [err |-> "", val |-> ParseUint(ans.body[1]).val]

\* ConsensusService.GetBeaconBlockBySlot: val is
\* Data.Message.Body.ExecutionPayload.BlockNumber of the decoded block.
GetBeaconBlockBySlot(ans) ==
    IF ans.kind = "transport_error" THEN [err |-> "transport error", val |-> ""]
    ELSE IF ans.status = StatusNotFound THEN [err |-> "block not found", val |-> ""]
    ELSE IF ans.status # StatusOK THEN [err |-> "unexpected status code", val |-> ""]
    ELSE IF ~ans.decodable THEN [err |-> "decode error", val |-> ""]
    ELSE [err |-> "", val |-> ans.body]

\* ExecutionService.GetExecutionBlockByNumber
GetExecutionBlockByNumber(ans) ==
    IF ans.kind = "transport_error" THEN [err |-> "transport error", val |-> EmptyBlock]
    ELSE IF ans.status # StatusOK THEN [err |-> "unexpected status code", val |-> EmptyBlock]
    ELSE IF ~ans.decodable THEN [err |-> "decode error", val |-> EmptyBlock]
    ELSE IF ans.body.Number = ""
         THEN [err |-> "block not found on execution layer", val |-> EmptyBlock]
    ELSE [err |-> "", val |-> ans.body]

\* The query of GetSyncCommitteeDuties with state_id = slot.
SyncQuery_stateIsSlot(slot) ==
    [state_id |-> slot, epoch |-> slot \div SLOTS_PER_EPOCH]

\* ConsensusService.GetSyncCommitteeDuties: the state_id and epoch of the URL.
SyncQuery(slot) ==
    [state_id |-> (slot \div SLOTS_PER_EPOCH) * SLOTS_PER_EPOCH,
     epoch |-> slot \div SLOTS_PER_EPOCH]

\* ConsensusService.GetSyncCommitteeDuties: the result for the answer.
GetSyncCommitteeDuties(ans) ==
    IF ans.kind = "transport_error" THEN [err |-> "transport error", val |-> <<>>]
    ELSE IF ans.status = StatusNotFound
         THEN [err |-> "sync committee duties not found for this slot", val |-> <<>>]
    ELSE IF ans.status # StatusOK THEN [err |-> "unexpected status code", val |-> <<>>]
    ELSE IF ~ans.decodable THEN [err |-> "decode error", val |-> <<>>]
    ELSE [err |-> "", val |-> ans.body]

\* ------------------------------------------------------------------------
\* State
\* ------------------------------------------------------------------------
VARIABLES
    inbound,    \* request -> the endpoint it hits and its :slot URL parameter
    pc,         \* request -> the handler's position
    locals,     \* request -> the handler's local variables
    answers,    \* request -> the upstream answers it has received
    calls,      \* request -> the upstream calls it has issued, in order
    response    \* request -> the HTTP response written (code 0: none yet)

vars == <<inbound, pc, locals, answers, calls, response>>

Reqs == DOMAIN pc

NoResponse == [code |-> 0, error |-> "", status |-> "", reward |-> "", validators |-> <<>>]

\* c.JSON(code, gin.H{"error": msg})
ErrorJSON(code, msg) == [NoResponse EXCEPT !.code = code, !.error = msg]

InitLocals ==
    [slot |-> 0, headSlot |-> 0, blockNumberHex |-> "", execBlock |-> EmptyBlock,
     baseFee |-> 0, idx |-> 0, totalReward |-> 0, rewardInGwei |-> 0]

InitAnswers ==
    [head |-> NoAnswer(<<>>), beacon |-> NoAnswer(""), exec |-> NoAnswer(EmptyBlock),
     sync |-> NoAnswer(<<>>)]

Call(api, slot, state_id, epoch, blockNumberHex) ==
    [api |-> api, slot |-> slot, state_id |-> state_id, epoch |-> epoch,
     blockNumberHex |-> blockNumberHex]

InitOver(R, params) ==
    /\ inbound \in [R -> [endpoint : Endpoints, slotParam : params]]
    /\ pc = [r \in R |-> "parse"]
    /\ locals = [r \in R |-> InitLocals]
    /\ answers = [r \in R |-> InitAnswers]
    /\ calls = [r \in R |-> <<>>]
    /\ response = [r \in R |-> NoResponse]

\* One inbound request, every slot parameter.
Init == InitOver({1}, SlotParams)

\* The handler writes its response and returns.
Reply(r, resp) ==
    /\ response' = [response EXCEPT ![r] = resp]
    /\ pc' = [pc EXCEPT ![r] = "done"]

Goto(r, label) ==
    /\ pc' = [pc EXCEPT ![r] = label]
    /\ UNCHANGED response

\* ------------------------------------------------------------------------
\* Handler steps shared in shape by the two handlers
\* ------------------------------------------------------------------------
\* slot, err := strconv.ParseUint(c.Param("slot"), 10, 64)
ParseSlotParam(r) ==
    LET p == ParseUint(inbound[r].slotParam)
    IN  /\ pc[r] = "parse"
        /\ IF ~p.ok
           THEN /\ Reply(r, ErrorJSON(StatusBadRequest, "invalid slot parameter"))
                /\ UNCHANGED locals
           ELSE /\ locals' = [locals EXCEPT ![r].slot = p.val]
                /\ Goto(r, "head")
        /\ UNCHANGED <<inbound, answers, calls>>

\* The future-slot test with >= in place of >.
IsFutureSlot_inclusive(slot, headSlot) == slot >= headSlot

\* if slot > headSlot
IsFutureSlot(slot, headSlot) == slot > headSlot

\* The head-slot step served from a head slot that another request has
\* fetched, when there is one, in place of a call of its own.
CheckHeadSlot_cached(r, ans, futureMsg, next) ==
    LET cached == {q \in Reqs \ {r} : /\ answers[q].head.kind # "none"
                                       /\ GetHeadSlot(answers[q].head).err = ""}
        h == IF cached = {} THEN GetHeadSlot(ans)
             ELSE GetHeadSlot(answers[CHOOSE q \in cached : TRUE].head)
    IN  /\ pc[r] = "head"
        /\ IF cached = {}
           THEN /\ calls' = [calls EXCEPT ![r] = Append(@, Call("head_slot", 0, 0, 0, ""))]
                /\ answers' = [answers EXCEPT ![r].head = ans]
           ELSE UNCHANGED <<calls, answers>>
        /\ locals' = [locals EXCEPT ![r].headSlot = h.val]
        /\ IF h.err # ""
           THEN Reply(r, ErrorJSON(StatusInternalServerError, "failed to fetch head slot"))
           ELSE IF IsFutureSlot(locals[r].slot, h.val)
           THEN Reply(r, ErrorJSON(StatusBadRequest, futureMsg))
           ELSE Goto(r, next)
        /\ UNCHANGED inbound

\* The head-slot step calling GetHeadSlot a second time when the first fails.
CheckHeadSlot_retryOnce(r, ans, futureMsg, next) ==
    LET h == GetHeadSlot(ans)
    IN  /\ pc[r] = "head"
        /\ calls' = [calls EXCEPT ![r] = Append(@, Call("head_slot", 0, 0, 0, ""))]
        /\ answers' = [answers EXCEPT ![r].head = ans]
        /\ locals' = [locals EXCEPT ![r].headSlot = h.val]
        /\ IF h.err # "" /\ calls[r] = <<>>
           THEN Goto(r, "head")
           ELSE IF h.err # ""
           THEN Reply(r, ErrorJSON(StatusInternalServerError, "failed to fetch head slot"))
           ELSE IF IsFutureSlot(locals[r].slot, h.val)
           THEN Reply(r, ErrorJSON(StatusBadRequest, futureMsg))
           ELSE Goto(r, next)
        /\ UNCHANGED inbound

\* headSlot, err := h.consensusService.GetHeadSlot() and the future-slot check
CheckHeadSlot(r, ans, futureMsg, next) ==
    LET h == GetHeadSlot(ans)
    IN  /\ pc[r] = "head"
        /\ calls' = [calls EXCEPT ![r] = Append(@, Call("head_slot", 0, 0, 0, ""))]
        /\ answers' = [answers EXCEPT ![r].head = ans]
        /\ locals' = [locals EXCEPT ![r].headSlot = h.val]
        /\ IF h.err # ""
           THEN Reply(r, ErrorJSON(StatusInternalServerError, "failed to fetch head slot"))
           ELSE IF IsFutureSlot(locals[r].slot, h.val)
           THEN Reply(r, ErrorJSON(StatusBadRequest, futureMsg))
           ELSE Goto(r, next)
        /\ UNCHANGED inbound

\* ------------------------------------------------------------------------
\* GetBlockReward
\* ------------------------------------------------------------------------
GetBlockReward_ParseSlot(r) ==
    /\ inbound[r].endpoint = "blockreward"
    /\ ParseSlotParam(r)

\* The head-slot step of GetBlockReward against an upstream that answers
\* with one of headAnswers.
GetBlockReward_HeadSlotFrom(r, headAnswers) ==
    /\ inbound[r].endpoint = "blockreward"
    /\ pc[r] = "head"
    /\ \E ans \in headAnswers :
          CheckHeadSlot(r, ans, "requested slot is in the future", "beacon")

GetBlockReward_HeadSlot(r) == GetBlockReward_HeadSlotFrom(r, HeadAnswers)

\* The beacon-block error mapping with every error reported as 500.
BeaconBlockOutcome_all500(b) ==
    IF b.err # ""
    THEN ErrorJSON(StatusInternalServerError, "failed to get beacon block")
    ELSE IF b.val = ""
    THEN ErrorJSON(StatusInternalServerError, "no execution payload for this slot")
    ELSE IF ~ParseUint(b.val).ok
    THEN ErrorJSON(StatusInternalServerError, "invalid block number format")
    ELSE NoResponse

\* What the handler answers after GetBeaconBlockBySlot returned b, NoResponse
\* when it goes on to the execution block.
BeaconBlockOutcome(b) ==
    IF b.err = "block not found"
    THEN ErrorJSON(StatusNotFound, "slot not found/missed")
    ELSE IF b.err # ""
    THEN ErrorJSON(StatusInternalServerError, "failed to get beacon block")
    ELSE IF b.val = ""
    THEN ErrorJSON(StatusNotFound, "no execution payload for this slot")
    ELSE IF ~ParseUint(b.val).ok
    THEN ErrorJSON(StatusInternalServerError, "invalid block number format")
    ELSE NoResponse

\* The beacon-block step against an upstream that answers with one of
\* beaconAnswers.
GetBlockReward_BeaconBlockFrom(r, beaconAnswers) ==
    /\ inbound[r].endpoint = "blockreward"
    /\ pc[r] = "beacon"
    /\ \E ans \in beaconAnswers :
        LET b == GetBeaconBlockBySlot(ans)
            out == BeaconBlockOutcome(b)
        IN
        /\ calls' = [calls EXCEPT ![r] = Append(@, Call("beacon_block", locals[r].slot, 0, 0, ""))]
        /\ answers' = [answers EXCEPT ![r].beacon = ans]
        /\ IF out # NoResponse
           THEN Reply(r, out) /\ UNCHANGED locals
           ELSE /\ locals' = [locals EXCEPT ![r].blockNumberHex = FmtHex(ParseUint(b.val).val)]
                /\ Goto(r, "exec")
        /\ UNCHANGED inbound

GetBlockReward_BeaconBlock(r) == GetBlockReward_BeaconBlockFrom(r, BeaconAnswers)

\* The execution-block step tolerating a malformed base fee as zero.
ExecBlockOutcome_baseFeeTolerated(e) ==
    IF e.err # ""
    THEN ErrorJSON(StatusInternalServerError, "failed to get execution block")
    ELSE NoResponse

\* What the handler answers after GetExecutionBlockByNumber returned e,
\* NoResponse when it goes on to the reward loop.
ExecBlockOutcome(e) ==
    IF e.err # ""
    THEN ErrorJSON(StatusInternalServerError, "failed to get execution block")
    ELSE IF ~hexToBigInt(e.val.BaseFeePerGas).ok
    THEN ErrorJSON(StatusInternalServerError, "invalid base fee")
    ELSE NoResponse

\* The execution-block step against an upstream that answers with one of
\* execAnswers.
GetBlockReward_ExecBlockFrom(r, execAnswers) ==
    /\ inbound[r].endpoint = "blockreward"
    /\ pc[r] = "exec"
    /\ \E ans \in execAnswers :
        LET e == GetExecutionBlockByNumber(ans)
            out == ExecBlockOutcome(e)
        IN
        /\ calls' = [calls EXCEPT ![r] =
                        Append(@, Call("execution_block", 0, 0, 0, locals[r].blockNumberHex))]
        /\ answers' = [answers EXCEPT ![r].exec = ans]
        /\ IF out # NoResponse
           THEN Reply(r, out) /\ UNCHANGED locals
           ELSE /\ locals' = [locals EXCEPT ![r].execBlock = e.val,
                                            ![r].baseFee = hexToBigInt(e.val.BaseFeePerGas).val,
                                            ![r].idx = 1,
                                            ![r].totalReward = 0]
                /\ Goto(r, "loop")
        /\ UNCHANGED inbound

GetBlockReward_ExecBlock(r) == GetBlockReward_ExecBlockFrom(r, ExecAnswers)

\* The loop body giving up the sum at a transaction that fails to parse.
LoopBody_resetOnBadTx(totalReward, tx, baseFee) ==
    LET gasPrice == hexToBigInt(tx.GasPrice)
        gas == hexToBigInt(tx.Gas)
    IN  IF ~gasPrice.ok \/ ~gas.ok THEN 0
        ELSE IF gasPrice.val > baseFee
        THEN totalReward + (gasPrice.val - baseFee) * gas.val
        ELSE totalReward

\* One iteration of the loop over execBlock.Result.Transactions: the new
\* value of totalReward.
LoopBody(totalReward, tx, baseFee) ==
    LET gasPrice == hexToBigInt(tx.GasPrice)
        gas == hexToBigInt(tx.Gas)
    IN  IF ~gasPrice.ok THEN totalReward
        ELSE IF ~gas.ok THEN totalReward
        ELSE IF gasPrice.val > baseFee
        THEN totalReward + (gasPrice.val - baseFee) * gas.val
        ELSE totalReward

GetBlockReward_LoopTx(r) ==
    LET l == locals[r]
        txs == l.execBlock.Transactions
    IN  /\ inbound[r].endpoint = "blockreward"
        /\ pc[r] = "loop"
        /\ l.idx <= Len(txs)
        /\ locals' = [locals EXCEPT ![r].totalReward = LoopBody(l.totalReward, txs[l.idx], l.baseFee),
                                    ![r].idx = l.idx + 1]
        /\ UNCHANGED <<inbound, pc, answers, calls, response>>

\* The classification by the byte length of the decoded extra data.
BlockStatus_decodedBytes(extraData) ==
    IF DecodedLen(extraData) > RelayExtraDataLen THEN "relay" ELSE "vanilla"

\* status := "vanilla"; if len(execBlock.Result.ExtraData) > 20 { status = "relay" }
BlockStatus(extraData) ==
    IF Len(extraData) > RelayExtraDataLen THEN "relay" ELSE "vanilla"

\* rewardInGwei := big.NewInt(0).Div(totalReward, divider)
WeiToGwei(totalReward) == BigDiv(totalReward, GweiDivider)

GetBlockReward_Respond(r) ==
    LET l == locals[r]
        rewardInGwei == WeiToGwei(l.totalReward)
    IN  /\ inbound[r].endpoint = "blockreward"
        /\ pc[r] = "loop"
        /\ l.idx > Len(l.execBlock.Transactions)
        /\ locals' = [locals EXCEPT ![r].rewardInGwei = rewardInGwei]
        /\ Reply(r, [NoResponse EXCEPT !.code = StatusOK,
                                       !.status = BlockStatus(l.execBlock.ExtraData),
                                       !.reward = BigString(rewardInGwei)])
        /\ UNCHANGED <<inbound, answers, calls>>

RECURSIVE TotalRewardOf(_, _, _)
\* The loop over execBlock.Result.Transactions run to its end from totalReward.
TotalRewardOf(txs, baseFee, totalReward) ==
    IF txs = <<>> THEN totalReward
    ELSE TotalRewardOf(Tail(txs), baseFee, LoopBody(totalReward, Head(txs), baseFee))

\* The 200 response of GetBlockReward for an execution block whose base fee
\* parses: the handler from the base fee to c.JSON, as a function of the block.
RewardResponse(block) ==
    LET baseFee == hexToBigInt(block.BaseFeePerGas).val
    IN  [NoResponse EXCEPT
            !.code = StatusOK,
            !.status = BlockStatus(block.ExtraData),
            !.reward = BigString(WeiToGwei(TotalRewardOf(block.Transactions, baseFee, 0)))]

\* ------------------------------------------------------------------------
\* GetSyncDuties
\* ------------------------------------------------------------------------
GetSyncDuties_ParseSlot(r) ==
    /\ inbound[r].endpoint = "syncduties"
    /\ ParseSlotParam(r)

\* The head-slot step of GetSyncDuties against an upstream that answers
\* with one of headAnswers.
GetSyncDuties_HeadSlotFrom(r, headAnswers) ==
    /\ inbound[r].endpoint = "syncduties"
    /\ pc[r] = "head"
    /\ \E ans \in headAnswers :
          CheckHeadSlot(r, ans, "requested slot is too far in the future", "sync")

GetSyncDuties_HeadSlot(r) == GetSyncDuties_HeadSlotFrom(r, HeadAnswers)

\* What the handler answers after GetSyncCommitteeDuties returned d.
SyncDutiesOutcome(d) ==
    IF d.err = "sync committee duties not found for this slot"
    THEN ErrorJSON(StatusNotFound, "sync committee duties not found")
    ELSE IF d.err # ""
    THEN ErrorJSON(StatusInternalServerError, "failed to get sync committee duties")
    ELSE [NoResponse EXCEPT !.code = StatusOK, !.validators = d.val]

GetSyncDuties_Committee(r) ==
    /\ inbound[r].endpoint = "syncduties"
    /\ pc[r] = "sync"
    /\ LET q == SyncQuery(locals[r].slot) IN
       \E ans \in SyncAnswers(q.state_id, q.epoch) :
        /\ calls' = [calls EXCEPT ![r] =
                        Append(@, Call("sync_committee", 0, q.state_id, q.epoch, ""))]
        /\ answers' = [answers EXCEPT ![r].sync = ans]
        /\ Reply(r, SyncDutiesOutcome(GetSyncCommitteeDuties(ans)))
        /\ UNCHANGED <<inbound, locals>>

\* ------------------------------------------------------------------------
\* Specification: one request, handled step by step
\* ------------------------------------------------------------------------
Next ==
    \/ \E r \in Reqs : GetBlockReward_ParseSlot(r)
    \/ \E r \in Reqs : GetBlockReward_HeadSlot(r)
    \/ \E r \in Reqs : GetBlockReward_BeaconBlock(r)
    \/ \E r \in Reqs : GetBlockReward_ExecBlock(r)
    \/ \E r \in Reqs : GetBlockReward_LoopTx(r)
    \/ \E r \in Reqs : GetBlockReward_Respond(r)
    \/ \E r \in Reqs : GetSyncDuties_ParseSlot(r)
    \/ \E r \in Reqs : GetSyncDuties_HeadSlot(r)
    \/ \E r \in Reqs : GetSyncDuties_Committee(r)

Spec == Init /\ [][Next]_vars

\* A few execution blocks: empty, with a counted and an unparseable
\* transaction, and with a base fee that does not parse.
FewExecBlocks ==
    {Block("0xff", "0x2", ExtraDataOf(0), <<>>),
     Block("0xff", "0x2", ExtraDataOf(21), <<Tx(BigGasPrice, "0x1"), Tx("", "0x1")>>),
     Block("0xff", "0xg", ExtraDataOf(0), <<Tx("0x4", "0x2")>>)}

FewExecAnswers ==
    Failures(EmptyBlock) \cup {HttpError(StatusNotFound, EmptyBlock), HttpOK(EmptyBlock)}
    \cup {HttpOK(b) : b \in FewExecBlocks}

NextLive ==
    \/ \E r \in Reqs : GetBlockReward_ParseSlot(r)
    \/ \E r \in Reqs : GetBlockReward_HeadSlot(r)
    \/ \E r \in Reqs : GetBlockReward_BeaconBlock(r)
    \/ \E r \in Reqs : GetBlockReward_ExecBlockFrom(r, FewExecAnswers)
    \/ \E r \in Reqs : GetBlockReward_LoopTx(r)
    \/ \E r \in Reqs : GetBlockReward_Respond(r)
    \/ \E r \in Reqs : GetSyncDuties_ParseSlot(r)
    \/ \E r \in Reqs : GetSyncDuties_HeadSlot(r)
    \/ \E r \in Reqs : GetSyncDuties_Committee(r)

\* One request whose handler keeps running: gin runs the handler to its
\* return, and every upstream call returns, with an answer or with the
\* client's 10 s timeout.
SpecLive == Init /\ [][NextLive]_vars /\ WF_vars(NextLive)

\* Two concurrent sync-duty requests.
InitSync ==
    /\ InitOver({1, 2}, SlotParams)
    /\ \A r \in {1, 2} : inbound[r].endpoint = "syncduties"

NextSync ==
    \/ \E r \in Reqs : GetSyncDuties_ParseSlot(r)
    \/ \E r \in Reqs : GetSyncDuties_HeadSlot(r)
    \/ \E r \in Reqs : GetSyncDuties_Committee(r)

SpecSync == InitSync /\ [][NextSync]_vars

\* ------------------------------------------------------------------------
\* Specification: concurrent requests. gin serves each request in a
\* goroutine of its own, so the steps of the handlers interleave freely.
\* ------------------------------------------------------------------------
NumRequests == 2

\* The first slot, the head slot, a future slot and a malformed parameter.
ConcSlotParams == {FmtDec(0), FmtDec(HeadSlot), FmtDec(HeadSlot + 1), "abc"}

ConcHeadAnswers == {TransportError(<<>>), HttpOK(<<FmtDec(HeadSlot)>>)}

ConcBeaconAnswers == {HttpError(StatusNotFound, ""), HttpOK("255")}

ConcExecAnswers == {TransportError(EmptyBlock)} \cup {HttpOK(b) : b \in FewExecBlocks}

InitConc == InitOver(1..NumRequests, ConcSlotParams)

NextConc ==
    \/ \E r \in Reqs : GetBlockReward_ParseSlot(r)
    \/ \E r \in Reqs : GetBlockReward_HeadSlotFrom(r, ConcHeadAnswers)
    \/ \E r \in Reqs : GetBlockReward_BeaconBlockFrom(r, ConcBeaconAnswers)
    \/ \E r \in Reqs : GetBlockReward_ExecBlockFrom(r, ConcExecAnswers)
    \/ \E r \in Reqs : GetBlockReward_LoopTx(r)
    \/ \E r \in Reqs : GetBlockReward_Respond(r)
    \/ \E r \in Reqs : GetSyncDuties_ParseSlot(r)
    \/ \E r \in Reqs : GetSyncDuties_HeadSlotFrom(r, ConcHeadAnswers)
    \/ \E r \in Reqs : GetSyncDuties_Committee(r)

SpecConc == InitConc /\ [][NextConc]_vars

\* ------------------------------------------------------------------------
\* Vocabulary of the properties
\* ------------------------------------------------------------------------
Done(r) == pc[r] = "done"

Answered(a) == a.kind # "none"

\* The slot the request asks for, when its parameter is a slot at all.
SlotOK(r) == ParseUint(inbound[r].slotParam).ok
SlotOf(r) == ParseUint(inbound[r].slotParam).val

\* The head slot the request was told, when the head-slot call succeeded.
HeadOK(r) == Answered(answers[r].head) /\ GetHeadSlot(answers[r].head).err = ""
HeadOf(r) == GetHeadSlot(answers[r].head).val

Issued(r, api) == \E i \in DOMAIN calls[r] : calls[r][i].api = api

FutureSlotErrors ==
    {"requested slot is in the future", "requested slot is too far in the future"}

FutureSlotError(r) ==
    IF inbound[r].endpoint = "blockreward" THEN "requested slot is in the future"
    ELSE "requested slot is too far in the future"

\* The answer is a decoded 200 response.
IsOK(a) == a.kind = "http" /\ a.status = StatusOK /\ a.decodable

\* ------------------------------------------------------------------------
\* C1: in both handlers, a slot above the head slot ends the request with
\* the 400 future-slot error after the head-slot call alone (no beacon-block,
\* sync-committee or execution call is issued), and a slot at or below the
\* head slot never gets the future-slot error.
\* ------------------------------------------------------------------------
C1_FutureSlotRejected ==
    \A r \in Reqs :
        /\ (SlotOK(r) /\ HeadOK(r) /\ SlotOf(r) > HeadOf(r)) =>
              /\ Done(r)
              /\ response[r] = ErrorJSON(StatusBadRequest, FutureSlotError(r))
              /\ calls[r] = <<Call("head_slot", 0, 0, 0, "")>>
        /\ (SlotOK(r) /\ HeadOK(r) /\ SlotOf(r) <= HeadOf(r)) =>
              response[r].error \notin FutureSlotErrors
        /\ response[r].error \in FutureSlotErrors =>
              SlotOK(r) /\ HeadOK(r) /\ SlotOf(r) > HeadOf(r)

C1_Witness ==
    \E r \in Reqs :
        /\ SlotOK(r) /\ HeadOK(r) /\ SlotOf(r) > HeadOf(r)
        /\ response[r].code = StatusBadRequest
        /\ inbound[r].endpoint = "syncduties"

\* The execution block a reward request answered 200 for.
Rewarded(r) ==
    /\ inbound[r].endpoint = "blockreward"
    /\ Done(r)
    /\ response[r].code = StatusOK

BlockOf(r) == answers[r].exec.body

TxParses(tx) == hexToBigInt(tx.GasPrice).ok /\ hexToBigInt(tx.Gas).ok

RECURSIVE SumOfPriorityFees(_, _)
\* The sum, over the transactions whose gasPrice and gas both parse and
\* whose gasPrice is strictly above the base fee, of (gasPrice - baseFee) * gas.
SumOfPriorityFees(txs, baseFee) ==
    IF txs = <<>> THEN 0
    ELSE LET tx == Head(txs)
             counts == TxParses(tx) /\ hexToBigInt(tx.GasPrice).val > baseFee
         IN  (IF counts
              THEN (hexToBigInt(tx.GasPrice).val - baseFee) * hexToBigInt(tx.Gas).val
              ELSE 0)
             + SumOfPriorityFees(Tail(txs), baseFee)

\* ------------------------------------------------------------------------
\* C2: for every execution block whose base fee parses, the reward returned
\* is the truncating quotient by 1_000_000_000 of the sum of
\* (gasPrice - baseFee) * gas over the transactions that parse and are priced
\* strictly above the base fee.
\* ------------------------------------------------------------------------
C2_RewardIsTruncatedSum ==
    \A r \in Reqs :
        Rewarded(r) =>
            response[r].reward =
                BigString(BigQuo(SumOfPriorityFees(BlockOf(r).Transactions,
                                                   hexToBigInt(BlockOf(r).BaseFeePerGas).val),
                                 GweiDivider))

\* ------------------------------------------------------------------------
\* C3: the reward of every 200 response of GetBlockReward is >= 0, whatever
\* strings hexToBigInt accepts in the base fee, gasPrice and gas fields.
\* ------------------------------------------------------------------------
C3_RewardNonNegative ==
    \A r \in Reqs :
        Rewarded(r) => locals[r].rewardInGwei >= 0 /\ CharAt(response[r].reward, 1) # "-"

\* ------------------------------------------------------------------------
\* C4: the status is "relay" exactly when the decoded extra data is longer
\* than 20 bytes, and "vanilla" when it is 20 bytes or less.
\* ------------------------------------------------------------------------
C4_StatusByDecodedLength ==
    \A r \in Reqs :
        Rewarded(r) =>
            response[r].status =
                (IF DecodedLen(BlockOf(r).ExtraData) > 20 THEN "relay" ELSE "vanilla")

C6_NotFoundIs404 ==
    \A r \in Reqs :
        LET a == answers[r]
            notFound ==
                \/ a.beacon.kind = "http" /\ a.beacon.status = StatusNotFound
                \/ IsOK(a.beacon) /\ a.beacon.body = ""
                \/ a.sync.kind = "http" /\ a.sync.status = StatusNotFound
                \/ IsOK(a.exec) /\ a.exec.body.Number = ""
        IN  (Done(r) /\ notFound) => response[r].code = StatusNotFound

\* ------------------------------------------------------------------------
\* C7: in GetBlockReward with slot <= head, a beacon-block 404 is answered
\* 404 "slot not found/missed" and an empty execution-payload block number
\* is answered 404 "no execution payload for this slot"; in both cases no
\* execution call is issued and the response is not 500.
\* ------------------------------------------------------------------------
C7_MissedSlotAndNoPayload ==
    \A r \in Reqs :
        LET b == answers[r].beacon
        IN  (inbound[r].endpoint = "blockreward" /\ Answered(b)) =>
              /\ SlotOK(r) /\ HeadOK(r) /\ SlotOf(r) <= HeadOf(r)
              /\ (b.kind = "http" /\ b.status = StatusNotFound) =>
                    /\ Done(r)
                    /\ response[r] = ErrorJSON(StatusNotFound, "slot not found/missed")
                    /\ ~Issued(r, "execution_block")
              /\ (IsOK(b) /\ b.body = "") =>
                    /\ Done(r)
                    /\ response[r] =
                          ErrorJSON(StatusNotFound, "no execution payload for this slot")
                    /\ ~Issued(r, "execution_block")

C7_Witness ==
    \E r \in Reqs :
        /\ IsOK(answers[r].beacon)
        /\ answers[r].beacon.body = ""
        /\ response[r].code = StatusNotFound
        /\ SlotOf(r) = HeadOf(r)

\* The sequence txs without its i-th element.
RemoveAt(txs, i) == SubSeq(txs, 1, i - 1) \o SubSeq(txs, i + 1, Len(txs))

\* ------------------------------------------------------------------------
\* C8: removing from the execution block any transaction whose gasPrice or
\* gas fails to parse changes neither the HTTP status nor the reward nor the
\* status field of the response, wherever the transaction stands in the list:
\* the response to the block is the 200 response the block without that
\* transaction gets.
\* ------------------------------------------------------------------------
C8_UnparseableTxIsSkipped ==
    \A r \in Reqs :
        (/\ inbound[r].endpoint = "blockreward"
         /\ Done(r)
         /\ IsOK(answers[r].exec)
         /\ BlockOf(r).Number # ""
         /\ hexToBigInt(BlockOf(r).BaseFeePerGas).ok) =>
            \A i \in DOMAIN BlockOf(r).Transactions :
                ~TxParses(BlockOf(r).Transactions[i]) =>
                    response[r] =
                        RewardResponse([BlockOf(r) EXCEPT
                                           !.Transactions = RemoveAt(@, i)])

\* A block with a contributing transaction followed by an unparseable one
\* has been answered.
C8_Witness ==
    \E r \in Reqs :
        /\ Rewarded(r)
        /\ Len(BlockOf(r).Transactions) = 2
        /\ TxParses(BlockOf(r).Transactions[1])
        /\ ~TxParses(BlockOf(r).Transactions[2])
        /\ response[r].reward = "1"

\* The sync-committee call a request has issued.
SyncCallOf(r) == calls[r][CHOOSE i \in DOMAIN calls[r] : calls[r][i].api = "sync_committee"]

\* ------------------------------------------------------------------------
\* C9: GetSyncCommitteeDuties queries state_id = (S/32)*32 and epoch = S/32,
\* state_id is a multiple of 32 with state_id <= S < state_id + 32, and two
\* requests for slots of the same epoch issue the same query and, against
\* the same upstream state, get the identical validator sequence.
\* ------------------------------------------------------------------------
C9_SameEpochSameCommittee ==
    /\ \A r \in Reqs :
          Issued(r, "sync_committee") =>
              LET q == SyncCallOf(r)
                  S == SlotOf(r)
              IN  /\ q.epoch = S \div 32
                  /\ q.state_id = (S \div 32) * 32
                  /\ q.state_id % 32 = 0
                  /\ q.state_id <= S /\ S < q.state_id + 32
    /\ \A r1, r2 \in Reqs :
          (/\ Issued(r1, "sync_committee")
           /\ Issued(r2, "sync_committee")
           /\ SlotOf(r1) \div 32 = SlotOf(r2) \div 32) =>
              /\ SyncCallOf(r1) = SyncCallOf(r2)
              /\ (response[r1].code = StatusOK /\ response[r2].code = StatusOK) =>
                    response[r1].validators = response[r2].validators

\* Two requests for different slots of the same epoch, not the first of the
\* epoch, have both been answered 200.
C9_Witness ==
    \E r1, r2 \in Reqs :
        /\ SlotOf(r1) # SlotOf(r2)
        /\ SlotOf(r1) \div 32 = SlotOf(r2) \div 32
        /\ SlotOf(r1) % 32 # 0 /\ SlotOf(r2) % 32 # 0
        /\ response[r1].code = StatusOK /\ response[r2].code = StatusOK
        /\ response[r1].validators # <<>>

\* ------------------------------------------------------------------------
\* C10: every upstream failure (transport error or timeout, unexpected
\* non-2xx status, empty header data) and every block-level parse failure
\* (head slot, decimal block number, base fee, undecodable body) ends the
\* request with a 500; a base fee that fails to parse never yields a 200.
\* ------------------------------------------------------------------------
IsFailure(a, notFoundIsExpected) ==
    \/ a.kind = "transport_error"
    \/ /\ a.kind = "http"
       /\ a.status \notin 200..299
       /\ ~(notFoundIsExpected /\ a.status = StatusNotFound)
    \/ a.kind = "http" /\ a.status = StatusOK /\ ~a.decodable

C10_FailuresAre500 ==
    \A r \in Reqs :
        LET a == answers[r]
            failed ==
                \/ IsFailure(a.head, FALSE)
                \/ IsOK(a.head) /\ Len(a.head.body) = 0
                \/ IsOK(a.head) /\ Len(a.head.body) > 0 /\ ~ParseUint(a.head.body[1]).ok
                \/ IsFailure(a.beacon, TRUE)
                \/ IsOK(a.beacon) /\ a.beacon.body # "" /\ ~ParseUint(a.beacon.body).ok
                \/ IsFailure(a.exec, FALSE)
                \/ /\ IsOK(a.exec)
                   /\ a.exec.body.Number # ""
                   /\ ~hexToBigInt(a.exec.body.BaseFeePerGas).ok
                \/ IsFailure(a.sync, TRUE)
        IN  failed => Done(r) /\ response[r].code = StatusInternalServerError

\* A block with transactions and a base fee that does not parse was answered.
C10_Witness ==
    \E r \in Reqs :
        /\ IsOK(answers[r].exec)
        /\ BlockOf(r).Number # ""
        /\ ~hexToBigInt(BlockOf(r).BaseFeePerGas).ok
        /\ BlockOf(r).Transactions # <<>>
        /\ response[r] = ErrorJSON(StatusInternalServerError, "invalid base fee")

\* The APIs of the upstream calls a request has issued, in order.
ApisOf(r) == [i \in DOMAIN calls[r] |-> calls[r][i].api]

IsPrefix(p, q) == Len(p) <= Len(q) /\ p = SubSeq(q, 1, Len(p))

\* ------------------------------------------------------------------------
\* C11: within one GetBlockReward query the upstream calls are issued in the
\* order head slot, beacon block, execution block; the execution block is
\* fetched only after the beacon block came back decoded with a non-empty
\* block number, and the number requested is the 0x-prefixed hexadecimal
\* form of that decimal block number: read back as hexadecimal it is the
\* value the decimal string denotes.
\* ------------------------------------------------------------------------
C11_CallOrderAndBlockNumber ==
    \A r \in Reqs :
        inbound[r].endpoint = "blockreward" =>
            /\ IsPrefix(ApisOf(r), <<"head_slot", "beacon_block", "execution_block">>)
            /\ Issued(r, "beacon_block") => HeadOK(r)
            /\ Issued(r, "execution_block") =>
                  LET b == answers[r].beacon
                      q == calls[r][3].blockNumberHex
                  IN  /\ IsOK(b)
                      /\ b.body # ""
                      /\ ParseUint(b.body).ok
                      /\ SubSeq(q, 1, 2) = "0x"
                      /\ \A i \in 3..Len(q) : IsHexDigit(CharAt(q, i))
                      /\ DigitsValue(DropPrefix(q, 2), 16, 0) = ParseUint(b.body).val
                      /\ b.body = "255" => q = "0xff"

\* The execution block for the beacon block number "255" has been requested.
C11_Witness ==
    \E r \in Reqs :
        /\ Issued(r, "execution_block")
        /\ answers[r].beacon.body = "255"
        /\ calls[r][3].blockNumberHex = "0xff"
        /\ Answered(answers[r].exec)

\* The service method behind the call of this API returned an error.
CallFailed(r, api) ==
    LET a == answers[r]
    IN  CASE api = "head_slot" -> Answered(a.head) /\ GetHeadSlot(a.head).err # ""
          [] api = "beacon_block" ->
                Answered(a.beacon) /\ GetBeaconBlockBySlot(a.beacon).err # ""
          [] api = "execution_block" ->
                Answered(a.exec) /\ GetExecutionBlockByNumber(a.exec).err # ""
          [] api = "sync_committee" ->
                Answered(a.sync) /\ GetSyncCommitteeDuties(a.sync).err # ""

Apis == {"head_slot", "beacon_block", "execution_block", "sync_committee"}

C12_AtMostOnce ==
    \A r \in Reqs :
        /\ \A api \in Apis :
              /\ Cardinality({i \in DOMAIN calls[r] : calls[r][i].api = api}) <= 1
              /\ CallFailed(r, api) =>
                    /\ Done(r)
                    /\ response[r].code # 0
                    /\ calls[r][Len(calls[r])].api = api
        /\ Done(r) <=> response[r].code # 0

C12_ResponseIsFinal ==
    \A r \in Reqs :
        response[r].code # 0 =>
            /\ response'[r] = response[r]
            /\ calls'[r] = calls[r]

\* ------------------------------------------------------------------------
\* C12: no upstream call is retried: within one query each of the
\* head-slot, beacon-block, sync-committee and execution-block calls is
\* issued at most once; as soon as one fails the query has its response and
\* issues no further call; the response, once written, is never replaced;
\* and every query eventually has its response.
\* ------------------------------------------------------------------------
C12_NoRetryOneResponse ==
    /\ []C12_AtMostOnce
    /\ [][C12_ResponseIsFinal]_vars
    /\ <>(\A r \in Reqs : Done(r))

\* The execution-block call failed after the head-slot and beacon-block
\* calls succeeded, and the request was answered after these three calls.
C12_Witness ==
    \E r \in Reqs :
        /\ CallFailed(r, "execution_block")
        /\ answers[r].exec.kind = "transport_error"
        /\ Len(calls[r]) = 3
        /\ response[r].code = StatusInternalServerError

\* ------------------------------------------------------------------------
\* C13: queries are stateless and independent
\* ------------------------------------------------------------------------
\* The response of a handler run alone on the request req with the upstream
\* answers a: the handler from its first line to its return, as a function
\* of the slot parameter and of the answers.
RunAlone(req, a) ==
    LET p == ParseUint(req.slotParam)
        h == GetHeadSlot(a.head)
        b == GetBeaconBlockBySlot(a.beacon)
        e == GetExecutionBlockByNumber(a.exec)
    IN  IF ~p.ok THEN ErrorJSON(StatusBadRequest, "invalid slot parameter")
        ELSE IF h.err # ""
        THEN ErrorJSON(StatusInternalServerError, "failed to fetch head slot")
        ELSE IF req.endpoint = "blockreward"
        THEN IF IsFutureSlot(p.val, h.val)
             THEN ErrorJSON(StatusBadRequest, "requested slot is in the future")
             ELSE IF BeaconBlockOutcome(b) # NoResponse THEN BeaconBlockOutcome(b)
             ELSE IF ExecBlockOutcome(e) # NoResponse THEN ExecBlockOutcome(e)
             ELSE RewardResponse(e.val)
        ELSE IF IsFutureSlot(p.val, h.val)
             THEN ErrorJSON(StatusBadRequest, "requested slot is too far in the future")
             ELSE SyncDutiesOutcome(GetSyncCommitteeDuties(a.sync))

\* The upstream calls of a handler run alone on req with the answers a.
CallsAlone(req, a) ==
    LET p == ParseUint(req.slotParam)
        h == GetHeadSlot(a.head)
        b == GetBeaconBlockBySlot(a.beacon)
        q == SyncQuery(p.val)
    IN  IF ~p.ok THEN <<>>
        ELSE IF h.err # "" \/ IsFutureSlot(p.val, h.val)
        THEN <<Call("head_slot", 0, 0, 0, "")>>
        ELSE IF req.endpoint = "syncduties"
        THEN <<Call("head_slot", 0, 0, 0, ""),
               Call("sync_committee", 0, q.state_id, q.epoch, "")>>
        ELSE IF BeaconBlockOutcome(b) # NoResponse
        THEN <<Call("head_slot", 0, 0, 0, ""), Call("beacon_block", p.val, 0, 0, "")>>
        ELSE <<Call("head_slot", 0, 0, 0, ""), Call("beacon_block", p.val, 0, 0, ""),
               Call("execution_block", 0, 0, 0, FmtHex(ParseUint(b.val).val))>>

\* A finished request answered what it would have answered alone and issued
\* every upstream call itself, whatever the other requests did; and two
\* requests rewarded for the same execution block got the same response.
C13_OwnInputsOnly ==
    \A r \in Reqs :
        /\ Done(r) =>
              /\ response[r] = RunAlone(inbound[r], answers[r])
              /\ calls[r] = CallsAlone(inbound[r], answers[r])
        /\ \A q \in Reqs :
              Rewarded(r) /\ Rewarded(q) /\ BlockOf(r) = BlockOf(q) =>
                  response[r] = response[q]

\* A step is the step of one request: it leaves the state of every other
\* request as it was.
C13_StepIsLocal ==
    \E r \in Reqs :
        \A q \in Reqs \ {r} :
            /\ inbound'[q] = inbound[q]
            /\ pc'[q] = pc[q]
            /\ locals'[q] = locals[q]
            /\ answers'[q] = answers[q]
            /\ calls'[q] = calls[q]
            /\ response'[q] = response[q]

\* C13: under any interleaving of concurrent requests, a request's response
\* is the one it would get run alone with the upstream answers it received;
\* no request changes the state of another; nothing is cached, so a repeated
\* query issues its upstream calls again; and the same execution block
\* yields the same reward string.
C13_StatelessIndependent ==
    /\ []C13_OwnInputsOnly
    /\ [][C13_StepIsLocal]_vars

\* Two requests for the same slot, both rewarded for the same execution
\* block with a non-zero reward, each having issued its own three calls.
C13_Witness ==
    \E r, q \in Reqs :
        /\ r # q
        /\ inbound[r] = inbound[q]
        /\ Rewarded(r) /\ Rewarded(q)
        /\ BlockOf(r) = BlockOf(q)
        /\ Len(calls[r]) = 3 /\ Len(calls[q]) = 3
        /\ response[r].reward = "1" /\ response[q].reward = "1"
====
